---- MODULE Spec2Model ----
(***************************************************************************)
(* Priority / expiry / LRU cache of src/main.go (lines 1-256).             *)
(*                                                                         *)
(* The cache owns a table from key to *Item and two container/heap heaps   *)
(* of *Item.  Items are modelled as an arena: an item identity (the Go     *)
(* pointer) is a positive integer, `items` maps it to the record of its    *)
(* fields, and the table and both heaps hold identities.  Heap indices are *)
(* the 0-based Go indices (-1 after Pop), slot i of a heap is q[i+1].      *)
(*                                                                         *)
(* time.Now() is modelled by the variable `now`, the last clock reading:   *)
(* every public call first lets the clock advance by d >= 0 units and then *)
(* runs at that instant.  A duration of s seconds is s * Second units.     *)
(***************************************************************************)
EXTENDS Integers, Sequences, FiniteSets, TLC

VARIABLES
  maxItems,   \* Cache.maxItems
  table,      \* Cache.table: key -> Item identity
  priorityQ,  \* Cache.priorityQ: sequence of Item identities, slot i at [i+1]
  expiryQ,    \* Cache.expiryQ
  items,      \* the Items: identity -> fields
  now,        \* the last reading of the clock
  evicted,    \* history: the Items the last call deleted inside evictItems, in order
  written,    \* history: the value of the last Set of each key the table holds
  step        \* position of the driver in the scenario specification (0 elsewhere)

vars == <<maxItems, table, priorityQ, expiryQ, items, now, evicted, written, step>>

----------------------------------------------------------------------------
(* Bounds of the model.                                                    *)

\* units of the model clock per second (time.Second scaled down)
Second == 3
\* the clock is not advanced beyond this reading
MaxTime == 3
\* a Set that creates an Item is not taken when this many Items are still referenced
MaxAlloc == 3
\* largest TTL, in seconds, passed to Set
MaxTTL == 1
\* largest capacity passed to NewCache / SetMaxItems (the smallest is -1)
MaxCap == 2

\* Spec: two keys, one payload, the clock advances by whole seconds
Keys == {"A", "B"}
Values == {1}
Priorities == {1, 2}
TTLs == 0..MaxTTL
Caps == (-1)..MaxCap
Advances == {0, Second}

\* SpecPayload: two payloads and a finer clock over a smaller arena
MaxAllocPayload == 2
Payloads == {1, 2}
AdvancesPayload == {0, 1, Second}

\* SpecLru: the clock advances by single units, over less than a second
MaxTimeLru == 1
AdvancesLru == {0, 1}

\* SpecScenario: the largest advance of the clock between two calls of the driver
MaxStepAdvance == 2

\* the value Get returns for a missing or expired key
NotFound == -1

----------------------------------------------------------------------------
(* Cache state as one record, threaded through the operators below.        *)

Cur ==
  [maxItems |-> maxItems, table |-> table, priorityQ |-> priorityQ,
   expiryQ |-> expiryQ, items |-> items, evicted |-> <<>>]

TableLen(c) == Cardinality(DOMAIN c.table)

MapDelete(t, k) == [x \in (DOMAIN t) \ {k} |-> t[x]]

MapPut(t, k, v) == [x \in (DOMAIN t) \cup {k} |-> IF x = k THEN v ELSE t[x]]

SeqRange(q) == {q[i] : i \in 1..Len(q)}

\* Go's integer division by two truncates toward zero
GoHalf(x) == IF x >= 0 THEN x \div 2 ELSE -((-x) \div 2)

----------------------------------------------------------------------------
(* The two heap.Interface implementations.                                 *)

ExpiryQueueLen(c) == Len(c.expiryQ)

ExpiryQueueLess(c, i, j) ==
  c.items[c.expiryQ[i + 1]].expire < c.items[c.expiryQ[j + 1]].expire

\* the second and third statements of Swap act on the slots as exchanged
ExpiryQueueSwap(c, i, j) ==
  [c EXCEPT !.expiryQ = [@ EXCEPT ![i + 1] = c.expiryQ[j + 1], ![j + 1] = c.expiryQ[i + 1]],
            !.items = [[@ EXCEPT ![c.expiryQ[j + 1]].expiryIndex = i]
                          EXCEPT ![c.expiryQ[i + 1]].expiryIndex = j]]

ExpiryQueuePush(c, x) ==
  [c EXCEPT !.items[x].expiryIndex = Len(c.expiryQ), !.expiryQ = Append(c.expiryQ, x)]

ExpiryQueuePop(c) ==
  [c    |-> [c EXCEPT !.items[c.expiryQ[Len(c.expiryQ)]].expiryIndex = -1,
                      !.expiryQ = SubSeq(c.expiryQ, 1, Len(c.expiryQ) - 1)],
   item |-> c.expiryQ[Len(c.expiryQ)]]

PriorityQueueLen(c) == Len(c.priorityQ)

\* mutant: among equal priorities the most recently used item comes first
PriorityQueueLess_MostRecent(c, i, j) ==
  LET a == c.items[c.priorityQ[i + 1]]
      b == c.items[c.priorityQ[j + 1]]
  IN  IF a.priority = b.priority
        THEN a.access > b.access
        ELSE a.priority < b.priority

PriorityQueueLess(c, i, j) ==
  LET a == c.items[c.priorityQ[i + 1]]
      b == c.items[c.priorityQ[j + 1]]
  IN  IF a.priority = b.priority
        THEN a.access < b.access
        ELSE a.priority < b.priority

\* mutant: Swap exchanges the slots and leaves the index fields as they were
PriorityQueueSwap_KeepsIndex(c, i, j) ==
  [c EXCEPT !.priorityQ = [@ EXCEPT ![i + 1] = c.priorityQ[j + 1], ![j + 1] = c.priorityQ[i + 1]]]

PriorityQueueSwap(c, i, j) ==
  [c EXCEPT !.priorityQ = [@ EXCEPT ![i + 1] = c.priorityQ[j + 1], ![j + 1] = c.priorityQ[i + 1]],
            !.items = [[@ EXCEPT ![c.priorityQ[j + 1]].priorityIndex = i]
                          EXCEPT ![c.priorityQ[i + 1]].priorityIndex = j]]

PriorityQueuePush(c, x) ==
  [c EXCEPT !.items[x].priorityIndex = Len(c.priorityQ), !.priorityQ = Append(c.priorityQ, x)]

PriorityQueuePop(c) ==
  [c    |-> [c EXCEPT !.items[c.priorityQ[Len(c.priorityQ)]].priorityIndex = -1,
                      !.priorityQ = SubSeq(c.priorityQ, 1, Len(c.priorityQ) - 1)],
   item |-> c.priorityQ[Len(c.priorityQ)]]

----------------------------------------------------------------------------
(* container/heap over either queue; h is "priority" or "expiry".          *)

hLen(c, h) == IF h = "priority" THEN PriorityQueueLen(c) ELSE ExpiryQueueLen(c)

hLess(c, h, i, j) ==
  IF h = "priority" THEN PriorityQueueLess(c, i, j) ELSE ExpiryQueueLess(c, i, j)

hSwap(c, h, i, j) ==
  IF h = "priority" THEN PriorityQueueSwap(c, i, j) ELSE ExpiryQueueSwap(c, i, j)

RECURSIVE heapUp(_, _, _)
heapUp(c, h, j) ==
  LET i == GoHalf(j - 1)
  IN  IF i = j \/ ~hLess(c, h, j, i)
        THEN c
        ELSE heapUp(hSwap(c, h, i, j), h, i)

\* returns the state and the final position of the element sifted down
RECURSIVE heapDown(_, _, _, _)
heapDown(c, h, i, n) ==
  LET j1 == 2 * i + 1
  IN  IF j1 >= n \/ j1 < 0
        THEN [c |-> c, i |-> i]
        ELSE LET j2 == j1 + 1
                 j  == IF j2 < n /\ hLess(c, h, j2, j1) THEN j2 ELSE j1
             IN  IF ~hLess(c, h, j, i)
                   THEN [c |-> c, i |-> i]
                   ELSE heapDown(hSwap(c, h, i, j), h, j, n)

\* heap.Fix after its call of down returned r
heapFixDown(r, h, i) == IF r.i > i THEN r.c ELSE heapUp(r.c, h, i)

heapFix(c, h, i) == heapFixDown(heapDown(c, h, i, hLen(c, h)), h, i)

hPush(c, h, x) ==
  IF h = "priority" THEN PriorityQueuePush(c, x) ELSE ExpiryQueuePush(c, x)

hPop(c, h) ==
  IF h = "priority" THEN PriorityQueuePop(c) ELSE ExpiryQueuePop(c)

\* heap.Push after its call of h.Push
heapPushUp(c, h) == heapUp(c, h, hLen(c, h) - 1)

heapPush(c, h, x) == heapPushUp(hPush(c, h, x), h)

heapPop(c, h) ==
  hPop(heapDown(hSwap(c, h, 0, hLen(c, h) - 1), h, 0, hLen(c, h) - 1).c, h)

----------------------------------------------------------------------------
(* Cache.evictItems                                                        *)

\* got is the heap entry the loop looked at, id the Item the table holds under its key
EvictRecord(c, got, id, phase) ==
  [key |-> c.items[id].key, priority |-> c.items[id].priority,
   access |-> c.items[id].access, expire |-> c.items[id].expire, by |-> phase,
   stale |-> got # id]

\* delete(c.table, item.key), with the deleted item appended to the log
Evict(c, got, id, phase) ==
  [c EXCEPT !.table = MapDelete(c.table, c.items[id].key),
            !.evicted = Append(c.evicted, EvictRecord(c, got, id, phase))]

RECURSIVE expiryPhase(_, _)

\* mutant: the first loop goes on without the capacity test after its delete
expiryPhaseEvicted_NoCapacityTest(c, t) == expiryPhase(c, t)

\* the end of an iteration of the first loop, after the delete
expiryPhaseEvicted(c, t) ==
  IF TableLen(c) <= c.maxItems
    THEN [c |-> c, done |-> TRUE]
    ELSE expiryPhase(c, t)

\* the first loop; done is TRUE when the loop returned from evictItems
expiryPhase(c, t) ==
  IF ExpiryQueueLen(c) = 0
    THEN [c |-> c, done |-> FALSE]
    ELSE LET key == c.items[c.expiryQ[1]].key
         IN  IF key \notin DOMAIN c.table
               THEN expiryPhase(heapPop(c, "expiry").c, t)
               ELSE IF c.items[c.table[key]].expire > t
                      THEN [c |-> c, done |-> FALSE]
                      ELSE expiryPhaseEvicted(
                             Evict(heapPop(c, "expiry").c, c.expiryQ[1], c.table[key],
                                   "expiry"), t)

RECURSIVE priorityPhase(_)

\* mutant: the second loop returns after its first delete
priorityPhaseEvicted_ReturnsAtOnce(c) == c

\* the end of an iteration of the second loop, after the delete
priorityPhaseEvicted(c) ==
  IF TableLen(c) <= c.maxItems THEN c ELSE priorityPhase(c)

\* an iteration of the second loop, after its heap.Pop returned r
priorityPhasePopped(r) ==
  LET key == r.c.items[r.item].key
  IN  IF key \notin DOMAIN r.c.table
        THEN priorityPhase(r.c)
        ELSE priorityPhaseEvicted(Evict(r.c, r.item, r.c.table[key], "priority"))

\* the second loop
priorityPhase(c) ==
  IF PriorityQueueLen(c) = 0
    THEN c
    ELSE priorityPhasePopped(heapPop(c, "priority"))

evictItemsAfterExpiry(r) == IF r.done THEN r.c ELSE priorityPhase(r.c)

\* mutant: the early return tolerates one key too many
evictItems_OffByOne(c, t) ==
  IF TableLen(c) <= c.maxItems + 1
    THEN c
    ELSE evictItemsAfterExpiry(expiryPhase(c, t))

\* mutant: the early return is taken only below the capacity
evictItems_Strict(c, t) ==
  IF TableLen(c) < c.maxItems
    THEN c
    ELSE evictItemsAfterExpiry(expiryPhase(c, t))

\* mutant: the loops run without the capacity test in front of them
evictItems_NoEarlyReturn(c, t) == evictItemsAfterExpiry(expiryPhase(c, t))

evictItems(c, t) ==
  IF TableLen(c) <= c.maxItems
    THEN c
    ELSE evictItemsAfterExpiry(expiryPhase(c, t))

----------------------------------------------------------------------------
(* Item identities are Go pointers: which integer stands for which Item is *)
(* immaterial.  After every call the Items still reachable from the table  *)
(* or a heap are renumbered in the order expiry heap, priority heap,       *)
(* table, and the unreachable ones are dropped.                            *)

KeyOrder == <<"A", "B", "C", "D", "E">>

AllKeys == {KeyOrder[i] : i \in 1..Len(KeyOrder)}

Position(q, x) == CHOOSE i \in 1..Len(q) : q[i] = x

InSeq(q, x) == \E i \in 1..Len(q) : q[i] = x

TableIds(c) ==
  [i \in 1..Len(KeyOrder) |-> IF KeyOrder[i] \in DOMAIN c.table THEN c.table[KeyOrder[i]] ELSE 0]

Reachable(c) ==
  c.expiryQ
    \o SelectSeq(c.priorityQ, LAMBDA x : ~InSeq(c.expiryQ, x))
    \o SelectSeq(TableIds(c),
                 LAMBDA x : x # 0 /\ ~InSeq(c.expiryQ, x) /\ ~InSeq(c.priorityQ, x))

Renumber(c, order) ==
  [c EXCEPT !.items = [n \in 1..Len(order) |-> c.items[order[n]]],
            !.table = [k \in DOMAIN c.table |-> Position(order, c.table[k])],
            !.priorityQ = [i \in 1..Len(c.priorityQ) |-> Position(order, c.priorityQ[i])],
            !.expiryQ = [i \in 1..Len(c.expiryQ) |-> Position(order, c.expiryQ[i])]]

Collect(c) == Renumber(c, Reachable(c))

\* the identity of a freshly allocated Item
NewId(c) == Len(c.items) + 1

----------------------------------------------------------------------------
(* The public operations, as functions of the cache state and the clock.   *)

\* mutant: an item is still served at the instant of its expiry
Live_Inclusive(c, id, t) == t <= c.items[id].expire

\* time.Now().Before(item.expire)
Live(c, id, t) == t < c.items[id].expire

GetResult(c, key, t) ==
  IF key \in DOMAIN c.table /\ Live(c, c.table[key], t)
    THEN c.items[c.table[key]].value
    ELSE NotFound

\* mutant: an expired key is reported missing and left in the table
GetState_KeepsExpired(c, key, t) ==
  IF key \in DOMAIN c.table /\ Live(c, c.table[key], t)
    THEN heapFix([c EXCEPT !.items[c.table[key]].access = t], "priority",
                 c.items[c.table[key]].priorityIndex)
    ELSE c

\* mutant: a hit pushes the item on the priority heap again instead of fixing its position
GetState_Repush(c, key, t) ==
  IF key \in DOMAIN c.table
    THEN IF Live(c, c.table[key], t)
           THEN heapPush([c EXCEPT !.items[c.table[key]].access = t], "priority", c.table[key])
           ELSE [c EXCEPT !.table = MapDelete(c.table, key)]
    ELSE c

GetState(c, key, t) ==
  IF key \in DOMAIN c.table
    THEN IF Live(c, c.table[key], t)
           THEN heapFix([c EXCEPT !.items[c.table[key]].access = t], "priority",
                        c.items[c.table[key]].priorityIndex)
           ELSE [c EXCEPT !.table = MapDelete(c.table, key)]
    ELSE c

\* mutant: the in-place branch stores the new expiry without heap.Fix
SetExpire_NoFix(c, item, expireTime) == [c EXCEPT !.items[item].expire = expireTime]

\* the expiry half of the in-place branch of Set
SetExpire(c, item, expireTime) ==
  IF c.items[item].expire # expireTime
    THEN heapFix([c EXCEPT !.items[item].expire = expireTime], "expiry",
                 c.items[item].expiryIndex)
    ELSE c

\* mutant: the in-place branch forgets item.value = value
SetUpdate_KeepsValue(c, item, value, priority, accessTime, expireTime) ==
  SetExpire(heapFix([c EXCEPT !.items[item].priority = priority,
                              !.items[item].access = accessTime],
                    "priority", c.items[item].priorityIndex),
            item, expireTime)

\* mutant: the in-place branch forgets item.access = accessTime
SetUpdate_KeepsAccess(c, item, value, priority, accessTime, expireTime) ==
  SetExpire(heapFix([c EXCEPT !.items[item].value = value,
                              !.items[item].priority = priority],
                    "priority", c.items[item].priorityIndex),
            item, expireTime)

\* the in-place branch of Set
SetUpdate(c, item, value, priority, accessTime, expireTime) ==
  SetExpire(heapFix([c EXCEPT !.items[item].value = value,
                              !.items[item].priority = priority,
                              !.items[item].access = accessTime],
                    "priority", c.items[item].priorityIndex),
            item, expireTime)

\* the branch of Set that creates an Item
SetInsert(c, item, key, value, priority, accessTime, expireTime) ==
  heapPush(heapPush([c EXCEPT !.items = MapPut(c.items, item,
                                 [key |-> key, value |-> value, priority |-> priority,
                                  expire |-> expireTime, access |-> accessTime,
                                  priorityIndex |-> 0, expiryIndex |-> 0]),
                              !.table = MapPut(c.table, key, item)],
                    "priority", item),
           "expiry", item)

\* mutant: Set creates an Item on every call
SetStore_AlwaysInsert(c, key, value, priority, ttl, t) ==
  SetInsert(c, NewId(c), key, value, priority, t, t + ttl * Second)

\* the state of Set just before its call of evictItems
SetStore(c, key, value, priority, ttl, t) ==
  IF key \in DOMAIN c.table
    THEN SetUpdate(c, c.table[key], value, priority, t, t + ttl * Second)
    ELSE SetInsert(c, NewId(c), key, value, priority, t, t + ttl * Second)

SetState(c, key, value, priority, ttl, t) ==
  evictItems(SetStore(c, key, value, priority, ttl, t), t)

SetMaxItemsState(c, n, t) == evictItems([c EXCEPT !.maxItems = n], t)

----------------------------------------------------------------------------
(* Actions.                                                                *)

\* the value of the last Set of each key the table holds (0 for the other keys)
Written(w, t) == [k \in AllKeys |-> IF k \in DOMAIN t THEN w[k] ELSE 0]

\* the state a call leaves behind, as the next call finds it
Returned(c) == [Collect(c) EXCEPT !.evicted = <<>>]

Install(c) ==
  /\ maxItems' = c.maxItems
  /\ table' = c.table
  /\ priorityQ' = c.priorityQ
  /\ expiryQ' = c.expiryQ
  /\ items' = c.items
  /\ evicted' = c.evicted

NewCache(n) ==
  /\ maxItems = n
  /\ table = <<>>
  /\ priorityQ = <<>>
  /\ expiryQ = <<>>
  /\ items = <<>>

Init ==
  /\ \E n \in Caps : NewCache(n)
  /\ now = 0
  /\ evicted = <<>>
  /\ written = [k \in AllKeys |-> 0]
  /\ step = 0

\* a Set that creates an Item waits while alloc Items are still referenced
CanSet(c, key, alloc) == key \in DOMAIN c.table \/ Len(c.items) < alloc

GetAt(key, t) ==
  /\ now' = t
  /\ Install(Collect(GetState(Cur, key, t)))
  /\ written' = Written(written, table')

SetAt(key, value, priority, ttl, t) ==
  /\ now' = t
  /\ Install(Collect(SetState(Cur, key, value, priority, ttl, t)))
  /\ written' = Written([written EXCEPT ![key] = value], table')

SetMaxItemsAt(n, t) ==
  /\ now' = t
  /\ Install(Collect(SetMaxItemsState(Cur, n, t)))
  /\ written' = Written(written, table')

Get(key, t) ==
  /\ GetAt(key, t)
  /\ UNCHANGED step

Set(key, value, priority, ttl, t) ==
  /\ SetAt(key, value, priority, ttl, t)
  /\ UNCHANGED step

SetMaxItems(n, t) ==
  /\ SetMaxItemsAt(n, t)
  /\ UNCHANGED step

\* the instants at which the next call may run: the clock never runs backwards
CallTimes == {now + d : d \in Advances} \cap 0..MaxTime

CallTimesPayload == {now + d : d \in AdvancesPayload} \cap 0..MaxTime

CallTimesLru == {now + d : d \in AdvancesLru} \cap 0..MaxTimeLru

\* the keys a Set may store while at most alloc Items are referenced
Settable(alloc) == {k \in Keys : CanSet(Cur, k, alloc)}

Next ==
  \/ \E k \in Keys, t \in CallTimes : Get(k, t)
  \/ \E k \in Settable(MaxAlloc), v \in Values, p \in Priorities, l \in TTLs, t \in CallTimes :
       Set(k, v, p, l, t)
  \/ \E n \in Caps, t \in CallTimes : SetMaxItems(n, t)

Spec == Init /\ [][Next]_vars

NextPayload ==
  \/ \E k \in Keys, t \in CallTimesPayload : Get(k, t)
  \/ \E k \in Settable(MaxAllocPayload), v \in Payloads, p \in Priorities, l \in TTLs,
        t \in CallTimesPayload :
       Set(k, v, p, l, t)
  \/ \E n \in Caps, t \in CallTimesPayload : SetMaxItems(n, t)

SpecPayload == Init /\ [][NextPayload]_vars

NextLru ==
  \/ \E k \in Keys, t \in CallTimesLru : Get(k, t)
  \/ \E k \in Settable(MaxAlloc), v \in Values, p \in Priorities, l \in TTLs, t \in CallTimesLru :
       Set(k, v, p, l, t)
  \/ \E n \in Caps, t \in CallTimesLru : SetMaxItems(n, t)

SpecLru == Init /\ [][NextLru]_vars

----------------------------------------------------------------------------
(* The scenario: a driver that makes a fixed sequence of calls on          *)
(* NewCache(5), each at a later clock reading than the one before and      *)
(* before any item of the table expires.                                   *)

SetCall(key, value, priority, ttl) ==
  [op |-> "Set", key |-> key, value |-> value, priority |-> priority, ttl |-> ttl, n |-> 0]

GetCall(key) ==
  [op |-> "Get", key |-> key, value |-> 0, priority |-> 0, ttl |-> 0, n |-> 0]

SetMaxItemsCall(n) ==
  [op |-> "SetMaxItems", key |-> "", value |-> 0, priority |-> 0, ttl |-> 0, n |-> n]

ScenarioCalls ==
  << SetCall("A", 1, 5, 100), SetCall("B", 2, 15, 3), SetCall("C", 3, 5, 10),
     SetCall("D", 4, 1, 15), SetCall("E", 5, 5, 150), GetCall("A"),
     SetMaxItemsCall(4),
     SetCall("B", 2, 5, 3), SetMaxItemsCall(3),
     GetCall("A"), SetMaxItemsCall(2),
     SetMaxItemsCall(1) >>

ScenarioInit ==
  /\ NewCache(5)
  /\ now = 0
  /\ evicted = <<>>
  /\ written = [k \in AllKeys |-> 0]
  /\ step = 0

ScenarioTimes ==
  {t \in (now + 1)..(now + MaxStepAdvance) :
     \A k \in DOMAIN table : t < items[table[k]].expire}

ScenarioGet ==
  /\ step < Len(ScenarioCalls)
  /\ ScenarioCalls[step + 1].op = "Get"
  /\ \E t \in ScenarioTimes : GetAt(ScenarioCalls[step + 1].key, t)
  /\ step' = step + 1

ScenarioSet ==
  /\ step < Len(ScenarioCalls)
  /\ ScenarioCalls[step + 1].op = "Set"
  /\ \E t \in ScenarioTimes :
       SetAt(ScenarioCalls[step + 1].key, ScenarioCalls[step + 1].value,
             ScenarioCalls[step + 1].priority, ScenarioCalls[step + 1].ttl, t)
  /\ step' = step + 1

ScenarioSetMaxItems ==
  /\ step < Len(ScenarioCalls)
  /\ ScenarioCalls[step + 1].op = "SetMaxItems"
  /\ \E t \in ScenarioTimes : SetMaxItemsAt(ScenarioCalls[step + 1].n, t)
  /\ step' = step + 1

ScenarioNext == ScenarioGet \/ ScenarioSet \/ ScenarioSetMaxItems

SpecScenario == ScenarioInit /\ [][ScenarioNext]_vars

----------------------------------------------------------------------------
(* Vocabulary of the properties.                                           *)

Max0(n) == IF n > 0 THEN n ELSE 0

TableItem(c, k) == c.items[c.table[k]]

Expired(rec, t) == rec.expire <= t

\* the number of entries of heap q that carry key k
KeyCount(c, q, k) == Cardinality({i \in 1..Len(q) : c.items[q[i]].key = k})

----------------------------------------------------------------------------
(* C1: whenever a Set or SetMaxItems call has returned (and after any Get  *)
(* that follows), the table holds at most max(0, maxItems) keys.           *)
C1_CapacityBound == TableLen(Cur) <= Max0(maxItems)

\* a call has evicted under pressure and left the table exactly full
C1_Witness == Len(evicted) > 0 /\ maxItems > 0 /\ TableLen(Cur) = maxItems

----------------------------------------------------------------------------
(* C2: a call that evicts never deletes an unexpired item while an expired *)
(* item stays in the table, and it deletes expired items, earliest expiry  *)
(* first, before it deletes an unexpired item.  `evicted` is the log of    *)
(* the call that has just returned at time `now`.                          *)
C2_ExpiryPrecedence ==
  /\ \A i \in 1..Len(evicted) :
       ~Expired(evicted[i], now) =>
         \A k \in DOMAIN table : ~Expired(TableItem(Cur, k), now)
  /\ \A i, j \in 1..Len(evicted) :
       (i < j /\ Expired(evicted[j], now)) =>
         (Expired(evicted[i], now) /\ evicted[i].expire <= evicted[j].expire)

----------------------------------------------------------------------------
(* C3 as claimed: Set(k, v, p, ttl) with ttl > 0 followed at once by       *)
(* Get(k) returns v.                                                       *)
C3_RoundTrip ==
  \A k \in Keys, v \in Payloads, p \in Priorities, l \in 1..MaxTTL, t \in CallTimesPayload :
    CanSet(Cur, k, MaxAllocPayload) =>
      GetResult(Returned(SetState(Cur, k, v, p, l, t)), k, t) = v

\* c is the state Set(k, v, _, _) left behind, t2 the time of the Get
RoundTripIfKept(c, k, v, t2) ==
  GetResult(c, k, t2) = IF k \in DOMAIN c.table THEN v ELSE NotFound

(* C3 as amended: Set(k, v, p, ttl) with ttl > 0 followed by Get(k) before *)
(* the clock reaches the expiry returns v if k is in the table when Set    *)
(* returns, and not-found if the eviction of that Set deleted k.           *)
C3_RoundTripAmended ==
  \A k \in Keys, v \in Payloads, p \in Priorities, l \in 1..MaxTTL, t \in CallTimesPayload :
    CanSet(Cur, k, MaxAllocPayload) =>
      \A t2 \in t..(t + l * Second - 1) :
        RoundTripIfKept(Returned(SetState(Cur, k, v, p, l, t)), k, v, t2)

\* c is the state of a Set that evicted another key and kept k
RoundTripSeen(c, k, v, t2) ==
  /\ Len(c.evicted) > 0
  /\ k \in DOMAIN c.table
  /\ GetResult(c, k, t2) = v

\* a Set stores a key under capacity pressure, another key goes, and the Get finds the value
C3_Witness ==
  \E k \in Keys \ DOMAIN table, p \in Priorities :
    /\ CanSet(Cur, k, MaxAllocPayload)
    /\ TableLen(Cur) > 0
    /\ RoundTripSeen(SetState(Cur, k, 2, p, 1, now), k, 2, now + 1)

----------------------------------------------------------------------------
----------------------------------------------------------------------------
(* C5: every key of the table is the key of exactly one entry of the       *)
(* priority heap and of exactly one entry of the expiry heap.              *)
C5_KeyParity ==
  \A k \in DOMAIN table :
    KeyCount(Cur, priorityQ, k) = 1 /\ KeyCount(Cur, expiryQ, k) = 1

----------------------------------------------------------------------------
\* no item the call found in the table, deleted or kept, is expired at the call
NothingExpired ==
  /\ \A i \in 1..Len(evicted) : ~Expired(evicted[i], now)
  /\ \A k \in DOMAIN table : ~Expired(TableItem(Cur, k), now)

(* C6: when nothing in the table is expired, every item a call evicts has  *)
(* a priority less than or equal to that of every item that remains.       *)
C6_PriorityOrder ==
  NothingExpired =>
    \A i \in 1..Len(evicted), k \in DOMAIN table :
      evicted[i].priority <= TableItem(Cur, k).priority

----------------------------------------------------------------------------
\* the items the call found in the table, other than the first one it evicted
OtherItems ==
  {evicted[i] : i \in 2..Len(evicted)}
    \cup {[key |-> k, priority |-> TableItem(Cur, k).priority,
           access |-> TableItem(Cur, k).access, expire |-> TableItem(Cur, k).expire,
           by |-> "kept", stale |-> FALSE] : k \in DOMAIN table}

\* c1 is the state a successful Get(k) left behind, c2 that of the call after it
NotNextVictim(c1, c2, k, t2) ==
  ( /\ Len(c2.evicted) > 0
    /\ \A j \in DOMAIN c1.table : ~Expired(TableItem(c1, j), t2)
    /\ \E j \in DOMAIN c1.table :
         /\ TableItem(c1, j).priority = TableItem(c1, k).priority
         /\ TableItem(c1, j).access < TableItem(c1, k).access )
  => c2.evicted[1].key # k

(* C7: when nothing in the table is expired, the first item a call evicts  *)
(* has, among the items of its priority, the oldest access time; and the   *)
(* key of a successful Get is not the next one evicted while another item  *)
(* of its priority has an older access time.                               *)
C7_LruTieBreak ==
  /\ (NothingExpired /\ Len(evicted) > 0) =>
       \A x \in OtherItems :
         x.priority = evicted[1].priority => evicted[1].access <= x.access
  /\ \A k \in Keys, t \in CallTimesLru, n \in Caps :
       GetResult(Cur, k, t) # NotFound =>
         NotNextVictim(Returned(GetState(Cur, k, t)),
                       SetMaxItemsState(Returned(GetState(Cur, k, t)), n, t), k, t)

----------------------------------------------------------------------------
(* C8: Get(k) returns the value of the most recent Set of k exactly when k *)
(* is in the table and the clock is strictly before the item's expiry; it  *)
(* returns -1 when k is absent or its expiry is at or before the clock.    *)
C8_GetResult ==
  \A k \in Keys, t \in CallTimesPayload :
    GetResult(Cur, k, t) =
      IF k \in DOMAIN table /\ t < TableItem(Cur, k).expire
        THEN written[k]
        ELSE NotFound

\* one key reads back its overwritten payload while the other sits at its expiry instant
C8_Witness ==
  \E k, j \in DOMAIN table :
    /\ written[k] = 2
    /\ TableItem(Cur, k).access > 0
    /\ GetResult(Cur, k, now) = 2
    /\ TableItem(Cur, j).expire = now
    /\ GetResult(Cur, j, now) = NotFound

----------------------------------------------------------------------------
Sizes(c) == <<TableLen(c), Len(c.priorityQ), Len(c.expiryQ)>>

\* c is the state the first Set left behind; the second Set runs at t2
SecondSetSameSizes(c, k, v, p, l, t2) ==
  Sizes(SetState(c, k, v, p, l, t2)) = Sizes(c)

(* C9 as claimed: a second Set with the arguments of the first leaves the  *)
(* table size and both heap lengths as the first call left them.           *)
C9_IdempotentReset ==
  \A k \in Keys, v \in Values, p \in Priorities, l \in TTLs, t \in CallTimes :
    CanSet(Cur, k, MaxAlloc) =>
      \A t2 \in {t + d : d \in Advances} :
        SecondSetSameSizes(Returned(SetState(Cur, k, v, p, l, t)), k, v, p, l, t2)

\* the same, for a first Set that kept its key
SecondSetSameSizesIfKept(c, k, v, p, l, t2) ==
  k \in DOMAIN c.table => SecondSetSameSizes(c, k, v, p, l, t2)

(* C9 as amended: when the key is in the table after the first Set, a      *)
(* second Set with the same arguments leaves the table size and both heap  *)
(* lengths as the first call left them.                                    *)
C9_IdempotentResetAmended ==
  \A k \in Keys, v \in Values, p \in Priorities, l \in TTLs, t \in CallTimes :
    CanSet(Cur, k, MaxAlloc) =>
      \A t2 \in {t + d : d \in Advances} :
        SecondSetSameSizesIfKept(Returned(SetState(Cur, k, v, p, l, t)), k, v, p, l, t2)

\* c1 is the state of a first Set that evicted another key and kept k
SecondSetSeen(c1, c, k, v, p, l, t2) ==
  /\ Len(c1.evicted) > 0
  /\ k \in DOMAIN c.table
  /\ Len(c.expiryQ) > TableLen(c)
  /\ SecondSetSameSizes(c, k, v, p, l, t2)

\* a Set evicts another key, leaves a stale heap entry, and is repeated a second later
C9_Witness ==
  \E k \in Keys, p \in Priorities :
    /\ CanSet(Cur, k, MaxAlloc)
    /\ SecondSetSeen(SetState(Cur, k, 1, p, 1, now),
                     Returned(SetState(Cur, k, 1, p, 1, now)), k, 1, p, 1, now + Second)

----------------------------------------------------------------------------
\* the keys of the table once the driver has made its first n calls
KeysAfter(n, keys) == step = n => DOMAIN table = keys

(* C10 as claimed: the scenario leaves {A,B,C,E} after SetMaxItems(4),    *)
(* {A,B,C} after SetMaxItems(3), {A,B} after SetMaxItems(2) and {A} after  *)
(* SetMaxItems(1).                                                         *)
C10_Scenario ==
  /\ KeysAfter(7, {"A", "B", "C", "E"})
  /\ KeysAfter(9, {"A", "B", "C"})
  /\ KeysAfter(11, {"A", "B"})
  /\ KeysAfter(12, {"A"})

(* C10 as amended: the scenario leaves {A,B,C,E} after SetMaxItems(4),    *)
(* {A,B,E} after SetMaxItems(3), which evicts C, the item of priority 5    *)
(* with the oldest access, {A,B} after SetMaxItems(2), which evicts E, and *)
(* {A} after SetMaxItems(1).                                               *)
C10_ScenarioAmended ==
  /\ KeysAfter(6, {"A", "B", "C", "D", "E"})
  /\ KeysAfter(7, {"A", "B", "C", "E"})
  /\ KeysAfter(8, {"A", "B", "C", "E"})
  /\ KeysAfter(9, {"A", "B", "E"})
  /\ (step = 9 => (Len(evicted) = 1 /\ evicted[1].key = "C" /\ evicted[1].by = "priority"))
  /\ KeysAfter(10, {"A", "B", "E"})
  /\ KeysAfter(11, {"A", "B"})
  /\ (step = 11 => (Len(evicted) = 1 /\ evicted[1].key = "E" /\ evicted[1].by = "priority"))
  /\ KeysAfter(12, {"A"})

\* the driver has made its last call, with the slowest clock the guard allows
C10_Witness == step = 12 /\ DOMAIN table = {"A"} /\ now >= 15

----------------------------------------------------------------------------
\* the number of slots of heap q that hold the Item id
SlotCount(q, id) == Cardinality({i \in 1..Len(q) : q[i] = id})

\* index designates, inside the bounds of heap q, the one slot that holds id
Designates(q, index, id) ==
  /\ index \in 0..(Len(q) - 1)
  /\ q[index + 1] = id
  /\ SlotCount(q, id) = 1

(* C11: after every call, for every Item the table holds, the slot of the  *)
(* priority heap at item.priorityIndex and the slot of the expiry heap at  *)
(* item.expiryIndex hold that very Item, each heap holding it once; so the *)
(* index a heap.Fix of Get or Set receives is inside the bounds, is never  *)
(* -1 and designates the item being fixed.                                 *)
C11_IndexAgreement ==
  \A k \in DOMAIN table :
    /\ Designates(priorityQ, TableItem(Cur, k).priorityIndex, table[k])
    /\ Designates(expiryQ, TableItem(Cur, k).expiryIndex, table[k])

\* a table item sits below the root of both heaps, at different indices, next to a stale entry
C11_Witness ==
  \E k \in DOMAIN table :
    /\ TableItem(Cur, k).priorityIndex > 0
    /\ TableItem(Cur, k).expiryIndex > 0
    /\ TableItem(Cur, k).priorityIndex # TableItem(Cur, k).expiryIndex
    /\ Len(priorityQ) > TableLen(Cur)

----------------------------------------------------------------------------
(* C12: if the table holds at most n keys, SetMaxItems(n) changes only     *)
(* maxItems and leaves the table, the Items and both heaps as they were;   *)
(* and a Set after whose store the table holds at most maxItems keys       *)
(* deletes no key and pops no heap entry, expired items included.          *)
C12_NoPressureNoEviction ==
  /\ \A n \in Caps, t \in CallTimes :
       TableLen(Cur) <= n => SetMaxItemsState(Cur, n, t) = [Cur EXCEPT !.maxItems = n]
  /\ \A k \in Keys, v \in Values, p \in Priorities, l \in TTLs, t \in CallTimes :
       (CanSet(Cur, k, MaxAlloc) /\ TableLen(SetStore(Cur, k, v, p, l, t)) <= maxItems) =>
         SetState(Cur, k, v, p, l, t) = SetStore(Cur, k, v, p, l, t)

\* an expired item and a stale heap entry survive a SetMaxItems that leaves no room to spare
C12_Witness ==
  /\ \E k \in DOMAIN table : Expired(TableItem(Cur, k), now)
  /\ Len(expiryQ) > TableLen(Cur)
  /\ TableLen(Cur) < maxItems
  /\ SetMaxItemsState(Cur, TableLen(Cur), now).table = table
  /\ SetMaxItemsState(Cur, TableLen(Cur), now).expiryQ = expiryQ

----------------------------------------------------------------------------
\* every Item the table or a heap refers to exists
WellFormed(c) ==
  /\ \A k \in DOMAIN c.table : c.table[k] \in DOMAIN c.items
  /\ \A i \in 1..Len(c.priorityQ) : c.priorityQ[i] \in DOMAIN c.items
  /\ \A i \in 1..Len(c.expiryQ) : c.expiryQ[i] \in DOMAIN c.items

\* the heap entries evictItems consumed between the states c0 and c
Consumed(c0, c) ==
  (Len(c0.expiryQ) - Len(c.expiryQ)) + (Len(c0.priorityQ) - Len(c.priorityQ))

\* evictItems, entered in state c0, returned in state c
Completes(c0, c) ==
  /\ WellFormed(c)
  /\ Len(c.expiryQ) <= Len(c0.expiryQ)
  /\ Len(c.priorityQ) <= Len(c0.priorityQ)
  /\ Len(c.evicted) <= Consumed(c0, c)
  /\ c.maxItems <= 0 => TableLen(c) = 0

(* C13: from every reachable state every Set and SetMaxItems call, zero    *)
(* and negative capacities and zero TTLs included, returns a well-formed   *)
(* state after consuming one heap entry for each key it deleted, and when  *)
(* maxItems is zero or negative at the end of the call the table is empty. *)
C13_TotalAndConverges ==
  /\ \A n \in Caps, t \in CallTimes :
       Completes([Cur EXCEPT !.maxItems = n], SetMaxItemsState(Cur, n, t))
  /\ \A k \in Keys, v \in Values, p \in Priorities, l \in TTLs, t \in CallTimes :
       CanSet(Cur, k, MaxAlloc) =>
         Completes(SetStore(Cur, k, v, p, l, t), SetState(Cur, k, v, p, l, t))

\* a call under a negative capacity has deleted two keys and drained both heaps
C13_Witness ==
  /\ maxItems < 0
  /\ Len(evicted) >= 2
  /\ TableLen(Cur) = 0
  /\ Len(priorityQ) = 0

----------------------------------------------------------------------------
(* C14: a heap entry whose Item is not the Item the table holds (one left  *)
(* behind by Get's lazy expiry or by the other phase, its key possibly set *)
(* again since) is dropped by the eviction without any key being deleted   *)
(* on its account: no deletion of the call that has just returned was      *)
(* made for a stale entry.                                                 *)
C14_StaleDiscarded == \A i \in 1..Len(evicted) : ~evicted[i].stale

----------------------------------------------------------------------------
\* no entry of heap h is less than its parent, stale entries included
MinHeap(c, h) ==
  \A j \in 1..(hLen(c, h) - 1) : ~hLess(c, h, j, GoHalf(j - 1))

\* hence the root is a minimum of the heap
RootIsMin(c, h) ==
  \A j \in 1..(hLen(c, h) - 1) : ~hLess(c, h, j, 0)

HeapsOrdered(c) ==
  /\ MinHeap(c, "priority") /\ RootIsMin(c, "priority")
  /\ MinHeap(c, "expiry") /\ RootIsMin(c, "expiry")

(* C15: after every call the priority heap is a min-heap under (priority,  *)
(* then access time) and the expiry heap is a min-heap under expiry time,  *)
(* over all their entries, stale ones included, so the root of each is a   *)
(* minimum; the same holds after an in-place Set that skips the fix of the *)
(* expiry heap because the computed expiry is the one the item has.        *)
C15_HeapOrder ==
  /\ HeapsOrdered(Cur)
  /\ \A k \in DOMAIN table, v \in Values, p \in Priorities, l \in TTLs, t \in CallTimes :
       t + l * Second = TableItem(Cur, k).expire =>
         HeapsOrdered(SetStore(Cur, k, v, p, l, t))

\* c is the state in which an in-place Set of k with an unchanged expiry has moved k down
FixSkippedSeen(c, k) ==
  /\ c.items[c.table[k]].priorityIndex > 0
  /\ HeapsOrdered(c)

\* the root of a priority heap of three entries, one stale, is set in place with its old expiry
C15_Witness ==
  \E k \in DOMAIN table :
    /\ Len(priorityQ) >= 3
    /\ Len(priorityQ) > TableLen(Cur)
    /\ TableItem(Cur, k).priorityIndex = 0
    /\ TableItem(Cur, k).expire = now + Second
    /\ FixSkippedSeen(SetStore(Cur, k, 1, 2, 1, now), k)

----------------------------------------------------------------------------
\* c is the state Get(k) left behind when it found k expired in state c0
LazilyExpired(c0, c, k) ==
  /\ DOMAIN c.table = (DOMAIN c0.table) \ {k}
  /\ \A j \in DOMAIN c.table : c.table[j] = c0.table[j]
  /\ c.priorityQ = c0.priorityQ
  /\ c.expiryQ = c0.expiryQ
  /\ c.items = c0.items
  /\ c.maxItems = c0.maxItems

\* c is the state of an eviction at time t from c0: what its expiry phase deleted, Get misses
ExpiryPhaseAgrees(c0, c, t) ==
  \A i \in 1..Len(c.evicted) :
    c.evicted[i].by = "expiry" => GetResult(c0, c.evicted[i].key, t) = NotFound

(* C16: Get(k) on a key whose table item has expire <= now, the boundary   *)
(* expire = now included, returns not-found, deletes k from the table,     *)
(* removes no other key and leaves both heaps, the Items and maxItems as   *)
(* they were; the items the expiry phase of an eviction deletes at that    *)
(* time are items such a Get reports as not found.                         *)
C16_LazyExpiry ==
  /\ \A k \in DOMAIN table, t \in CallTimes :
       TableItem(Cur, k).expire <= t =>
         /\ GetResult(Cur, k, t) = NotFound
         /\ LazilyExpired(Cur, GetState(Cur, k, t), k)
  /\ \A t \in CallTimes :
       ExpiryPhaseAgrees(Cur, SetMaxItemsState(Cur, 0, t), t)

\* a key at the very instant of its expiry is read while another, unexpired key is in the table
C16_Witness ==
  \E k, j \in DOMAIN table :
    /\ TableItem(Cur, k).expire = now
    /\ TableItem(Cur, j).expire > now
    /\ now > 0
    /\ DOMAIN GetState(Cur, k, now).table = {j}
    /\ Len(GetState(Cur, k, now).expiryQ) > 1

----------------------------------------------------------------------------
\* the fields of an Item a read never changes
Payload(rec) ==
  [key |-> rec.key, value |-> rec.value, priority |-> rec.priority, expire |-> rec.expire,
   expiryIndex |-> rec.expiryIndex]

\* heaps q0 and q hold the same entries, each as often
SameEntries(q0, q) ==
  /\ Len(q) = Len(q0)
  /\ \A i \in 1..Len(q0) : SlotCount(q, q0[i]) = SlotCount(q0, q0[i])

\* c is the state Get(k) left behind at time t when it found k unexpired in state c0
HitFrame(c0, c, k, t) ==
  /\ c.table = c0.table
  /\ c.maxItems = c0.maxItems
  /\ c.expiryQ = c0.expiryQ
  /\ SameEntries(c0.priorityQ, c.priorityQ)
  /\ DOMAIN c.items = DOMAIN c0.items
  /\ \A id \in DOMAIN c0.items :
       /\ Payload(c.items[id]) = Payload(c0.items[id])
       /\ c.items[id].access = IF id = c0.table[k] THEN t ELSE c0.items[id].access

(* C17: Get(k) on an unexpired key of the table changes only the access    *)
(* time of that item and the arrangement of the priority heap: the table,  *)
(* maxItems, the value, priority and expire of every item, the entries of  *)
(* both heaps and the order of the expiry heap stay as they were; Get(k)   *)
(* on a key the table does not hold changes nothing.                       *)
C17_ReadFrame ==
  \A k \in Keys, t \in CallTimesLru :
    /\ (k \in DOMAIN table /\ t < TableItem(Cur, k).expire) =>
         HitFrame(Cur, GetState(Cur, k, t), k, t)
    /\ k \notin DOMAIN table => GetState(Cur, k, t) = Cur

\* a read one tick later moves the item down the priority heap while another key is missing
C17_Witness ==
  \E k \in DOMAIN table :
    /\ now + 1 \in CallTimesLru
    /\ now + 1 < TableItem(Cur, k).expire
    /\ GetState(Cur, k, now + 1).priorityQ # priorityQ
    /\ Len(expiryQ) >= 2
    /\ Keys \ DOMAIN table # {}

----------------------------------------------------------------------------
\* the fields of an Item that Set assigns
Content(rec) ==
  [key |-> rec.key, value |-> rec.value, priority |-> rec.priority, access |-> rec.access,
   expire |-> rec.expire]

\* c is the state of Set(k, v, p, _) at time t, due at e, before its eviction, entered in c0
InPlace(c0, c, k, v, p, t, e) ==
  /\ c.table = c0.table
  /\ DOMAIN c.items = DOMAIN c0.items
  /\ Content(c.items[c.table[k]]) =
       [key |-> k, value |-> v, priority |-> p, access |-> t, expire |-> e]
  /\ \A id \in (DOMAIN c0.items) \ {c0.table[k]} : Content(c.items[id]) = Content(c0.items[id])
  /\ SameEntries(c0.priorityQ, c.priorityQ)
  /\ SameEntries(c0.expiryQ, c.expiryQ)

(* C18: Set(k, v, p, ttl) on a key the table holds, expired or not,        *)
(* creates no Item and pushes nothing: before the eviction step the table  *)
(* holds the same Item under k, now with value v, priority p, access = now *)
(* and expire = now + ttl, and both heaps have the length and the entries  *)
(* they had before the call.                                               *)
C18_InPlaceUpdate ==
  \A k \in DOMAIN table, v \in Payloads, p \in Priorities, l \in TTLs, t \in CallTimes :
    InPlace(Cur, SetStore(Cur, k, v, p, l, t), k, v, p, t, t + l * Second)

\* c is the state an in-place Set of k left both heaps rearranged in
Rearranged(c0, c) == c.priorityQ # c0.priorityQ /\ c.expiryQ # c0.expiryQ

\* an expired key is set again in place and moves in both heaps, next to a stale entry
C18_Witness ==
  \E k \in DOMAIN table :
    /\ Expired(TableItem(Cur, k), now)
    /\ Len(priorityQ) > TableLen(Cur)
    /\ Rearranged(Cur, SetStore(Cur, k, 2, 2, 1, now))

----------------------------------------------------------------------------
\* the keys the eviction that ended in state c deleted
EvictedKeys(c) == {c.evicted[i].key : i \in 1..Len(c.evicted)}

\* evictItems, entered in state c0, returned in state c
ExactExcess(c0, c) ==
  /\ TableLen(c0) > Max0(c0.maxItems) =>
       /\ Len(c.evicted) = TableLen(c0) - Max0(c0.maxItems)
       /\ TableLen(c) = Max0(c0.maxItems)
  /\ TableLen(c0) <= c0.maxItems => (c.table = c0.table /\ Len(c.evicted) = 0)
  /\ Cardinality(EvictedKeys(c)) = Len(c.evicted)
  /\ DOMAIN c.table = (DOMAIN c0.table) \ EvictedKeys(c)
  /\ \A j \in DOMAIN c.table : c.table[j] = c0.table[j]

(* C19: a Set or SetMaxItems call that finds the table larger than         *)
(* max(0, maxItems) deletes exactly (table size - max(0, maxItems)) keys   *)
(* and stops; it deletes no key once the table holds at most maxItems      *)
(* keys, and it adds no key other than the one being set.                  *)
C19_ExactExcess ==
  /\ \A n \in Caps, t \in CallTimes :
       ExactExcess([Cur EXCEPT !.maxItems = n], SetMaxItemsState(Cur, n, t))
  /\ \A k \in Keys, v \in Values, p \in Priorities, l \in TTLs, t \in CallTimes :
       CanSet(Cur, k, MaxAlloc) =>
         /\ ExactExcess(SetStore(Cur, k, v, p, l, t), SetState(Cur, k, v, p, l, t))
         /\ DOMAIN SetStore(Cur, k, v, p, l, t).table = (DOMAIN table) \cup {k}

\* of two expired items the call has deleted the one in excess and kept the other
C19_Witness ==
  /\ maxItems = 1
  /\ Len(evicted) = 1
  /\ evicted[1].by = "expiry"
  /\ TableLen(Cur) = 1
  /\ \A k \in DOMAIN table : Expired(TableItem(Cur, k), now)

====
